---- MODULE Spec2Model ----
(***************************************************************************)
(* The BCS serializer (src/src/ser) as a state machine driven by the       *)
(* serde visitor calls.  The state is the serializer call stack, the two   *)
(* top-level sinks (the Vec<u8> flavor and the Size flavor, fed by the     *)
(* same calls), and the result of the top-level entry point.               *)
(*                                                                         *)
(* Integers wider than TLC's are kept as [hi, lo] with value               *)
(* hi * 2^16 + lo, so that u32 and usize values above 2^31 - 1 exist.      *)
(***************************************************************************)
EXTENDS Integers, Sequences, FiniteSets, TLC

VARIABLES
    alloc,      \* cargo feature "alloc" of the build
    pc,         \* "idle" | "running" | "done": position of the top-level call
    limit,      \* the depth limit the entry point was given
    stack,      \* serializer frames, innermost last
    storage,    \* the Vec<u8> flavor's bytes
    counter,    \* the Size flavor's self.0
    err,        \* the Result of the last call / of the top-level call
    op          \* the name of the last call

vars == <<alloc, pc, limit, stack, storage, counter, err, op>>

----------------------------------------------------------------------------
(* Wide unsigned integers *)

W16 == 2^16

Wide(hi, lo) == [hi |-> hi, lo |-> lo]

FromNat(n) == Wide(n \div W16, n % W16)

WideGt(a, b) == a.hi > b.hi \/ (a.hi = b.hi /\ a.lo > b.lo)

\* `len as u32`: the low 32 bits
AsU32(v) == Wide(v.hi % W16, v.lo)

\* value >= 0x80
Ge0x80(v) == v.hi > 0 \/ v.lo >= 128

\* (value & 0x7f) as u8
Low7(v) == v.lo % 128

\* value >>= 7
Shr7(v) == Wide(v.hi \div 128, (v.lo \div 128) + (v.hi % 128) * 512)

----------------------------------------------------------------------------
(* Constants of the crate root *)

MAX_SEQUENCE_LENGTH == Wide(32767, 65535)     \* (1 << 31) - 1

MAX_CONTAINER_DEPTH == 500

----------------------------------------------------------------------------
(* error.rs *)

NoError == [kind |-> "Ok", arg |-> <<>>]

IsOk(e) == e.kind = "Ok"

Error(kind, arg) == [kind |-> kind, arg |-> <<arg>>]

ExceededMaxLen(len) == Error("ExceededMaxLen", len)

ExceededContainerDepthLimit(name) == Error("ExceededContainerDepthLimit", name)

NotSupported(what) == Error("NotSupported", what)

ExpectedMapKey == [kind |-> "ExpectedMapKey", arg |-> <<>>]

ExpectedMapValue == [kind |-> "ExpectedMapValue", arg |-> <<>>]

MissingLen == [kind |-> "MissingLen", arg |-> <<>>]

----------------------------------------------------------------------------
(* flavors.rs *)

\* impl Flavor for Vec<u8>: extend_from_slice
VecExtend(self, data) == self \o data

\* One per call of extend.
SizeExtend_calls(self, b) == self + 1

\* impl Flavor for Size: self.0 += b.len()
SizeExtend(self, b) == self + Len(b)

VecFinalize(self) == self

SizeFinalize(self) == self

----------------------------------------------------------------------------
(* serializer.rs: helpers of Serializer *)

\* The loop test written `value > 0x80`.
RECURSIVE output_u32_as_uleb128_gt(_)
output_u32_as_uleb128_gt(value) ==
    IF value.hi > 0 \/ value.lo > 128
    THEN <<Low7(value) + 128>> \o output_u32_as_uleb128_gt(Shr7(value))
    ELSE <<value.lo>>

RECURSIVE output_u32_as_uleb128(_)
output_u32_as_uleb128(value) ==
    IF Ge0x80(value)
    THEN <<Low7(value) + 128>> \o output_u32_as_uleb128(Shr7(value))
    ELSE <<value.lo>>

\* The length written without the comparison.
output_seq_len_unchecked(len) ==
    [e |-> NoError, data |-> output_u32_as_uleb128(AsU32(len))]

\* Each helper returns [e: the Result, data: the bytes it appended].
output_seq_len(len) ==
    IF WideGt(len, MAX_SEQUENCE_LENGTH)
    THEN [e |-> ExceededMaxLen(len), data |-> <<>>]
    ELSE [e |-> NoError, data |-> output_u32_as_uleb128(AsU32(len))]

\* The index held to the ceiling of the lengths.
output_variant_index_checked(v) == output_seq_len(v)

output_variant_index(v) == [e |-> NoError, data |-> output_u32_as_uleb128(v)]

\* The decrement left out.
enter_named_container_kept(depth, name) ==
    IF depth = 0
    THEN [e |-> ExceededContainerDepthLimit(name), depth |-> depth]
    ELSE [e |-> NoError, depth |-> depth]

\* Returns [e: the Result, depth: max_remaining_depth afterwards].
enter_named_container(depth, name) ==
    IF depth = 0
    THEN [e |-> ExceededContainerDepthLimit(name), depth |-> depth]
    ELSE [e |-> NoError, depth |-> depth - 1]

\* v.to_le_bytes() of an n-byte unsigned integer
RECURSIVE to_le_bytes(_, _)
to_le_bytes(v, n) ==
    IF n = 0 THEN <<>> ELSE <<v % 256>> \o to_le_bytes(v \div 256, n - 1)

----------------------------------------------------------------------------
(* The serializer call stack *)

\* A frame is a Serializer (or MapSerializer) value held by the adapter, or
\* a handler that is still on the call stack while its child is serialized.
\*   "Serializer"          a Serializer not yet consumed by a serialize_* call
\*   "some", "newtype_*"   handlers that passed self on to value.serialize
\*   "seq" .. "struct_variant", "map"   the compound serializers returned
\*   "serialize_key", "serialize_value" MapSerializer handlers with their
\*                         local `output` buffer (and the taken `key`)
Frame(t, name, depth) ==
    [t |-> t, name |-> name, depth |-> depth,
     entries |-> <<>>, next_key |-> <<>>, key |-> <<>>, output |-> <<>>]

Top(s) == s[Len(s)]

Pop(s) == SubSeq(s, 1, Len(s) - 1)

Push(s, f) == Append(s, f)

PassThrough == {"some", "newtype_struct", "newtype_variant"}

Compound == {"seq", "tuple", "tuple_struct", "tuple_variant", "struct", "struct_variant"}

Named == {"newtype_struct", "newtype_variant", "tuple_struct", "tuple_variant",
          "struct", "struct_variant"}

Staging == {"serialize_key", "serialize_value"}

\* The sink `self.output` refers to: the innermost staging buffer, or 0 for
\* the top-level flavor.
SinkIdx(s) ==
    LET I == {i \in 1..Len(s) : s[i].t \in Staging}
    IN  IF I = {} THEN 0 ELSE CHOOSE i \in I : \A j \in I : j <= i

\* self.output.extend(data) on the staging buffers
StackExtend(s, data) ==
    IF SinkIdx(s) = 0 THEN s
    ELSE [s EXCEPT ![SinkIdx(s)].output = VecExtend(@, data)]

\* The returns that follow the completion of a value: pass-through handlers
\* return; serialize_key stores its buffer in next_key; serialize_value
\* pushes the staged pair.
Unwind(s) ==
    LET K == {i \in 1..Len(s) : s[i].t \notin PassThrough}
        n == IF K = {} THEN 0 ELSE CHOOSE i \in K : \A j \in K : j <= i
        r == SubSeq(s, 1, n)
    IN  IF n = 0 THEN <<>>
        ELSE CASE r[n].t = "serialize_key" ->
                    Pop([r EXCEPT ![n - 1].next_key = <<r[n].output>>])
               [] r[n].t = "serialize_value" ->
                    Pop([r EXCEPT ![n - 1].entries = Append(@, <<r[n].key, r[n].output>>)])
               [] OTHER -> r

\* The effect of one visitor call: `data` is appended to the current sink,
\* then the call returns `e`.  A success leaves the stack `s2`.  An error
\* propagates through every `?` up to the entry point, which returns it:
\* the frames stay as they were when it was raised and nothing runs again.
Apply(call, e, data, s2) ==
    /\ pc = "running"
    /\ op' = call
    /\ err' = e
    /\ storage' = IF SinkIdx(stack) = 0 THEN VecExtend(storage, data) ELSE storage
    /\ counter' = IF SinkIdx(stack) = 0 THEN SizeExtend(counter, data) ELSE counter
    /\ stack' = IF IsOk(e) THEN s2 ELSE StackExtend(stack, data)
    /\ pc' = IF IsOk(e) /\ s2 # <<>> THEN "running" ELSE "done"
    /\ UNCHANGED <<alloc, limit>>

\* A serialize_* call needs a Serializer to consume.
CanDispatch == pc = "running" /\ stack # <<>> /\ Top(stack).t = "Serializer"

Depth == Top(stack).depth

Serializer_new(depth) == Frame("Serializer", "", depth)

\* The call wrote `data` and returns `e`; on Ok the value is complete.
Finish(call, e, data) ==
    Apply(call, e, data, Unwind(Pop(StackExtend(stack, data))))

\* The call wrote `data` and returns `e`; on Ok the consumed Serializer is
\* replaced by `frames`.
Enter(call, e, data, frames) ==
    Apply(call, e, data, Pop(StackExtend(stack, data)) \o frames)

Call(name, args) == name

----------------------------------------------------------------------------
(* impl ser::Serializer for Serializer: the primitives *)

serialize_u8(v) ==
    /\ CanDispatch
    /\ Finish(Call("serialize_u8", <<v>>), NoError, <<v>>)

serialize_bool(v) ==
    /\ CanDispatch
    /\ Finish(Call("serialize_bool", <<v>>), NoError, <<IF v THEN 1 ELSE 0>>)

\* v as u8
serialize_i8(v) ==
    /\ CanDispatch
    /\ Finish(Call("serialize_i8", <<v>>), NoError, <<v % 256>>)

serialize_u16(v) ==
    /\ CanDispatch
    /\ Finish(Call("serialize_u16", <<v>>), NoError, to_le_bytes(v, 2))

serialize_u32(v) ==
    /\ CanDispatch
    /\ Finish(Call("serialize_u32", <<v>>), NoError, to_le_bytes(v, 4))

serialize_u64(v) ==
    /\ CanDispatch
    /\ Finish(Call("serialize_u64", <<v>>), NoError, to_le_bytes(v, 8))

serialize_u128(v) ==
    /\ CanDispatch
    /\ Finish(Call("serialize_u128", <<v>>), NoError, to_le_bytes(v, 16))

serialize_f32 ==
    /\ CanDispatch
    /\ Finish(Call("serialize_f32", <<>>), NotSupported("serialize_f32"), <<>>)

serialize_f64 ==
    /\ CanDispatch
    /\ Finish(Call("serialize_f64", <<>>), NotSupported("serialize_f64"), <<>>)

serialize_char ==
    /\ CanDispatch
    /\ Finish(Call("serialize_char", <<>>), NotSupported("serialize_char"), <<>>)

\* A slice is [len, body]; body holds the bytes (a slice longer than
\* MAX_SEQUENCE_LENGTH is given by its length, with the start of its body).
serialize_bytes_result(v) ==
    LET r == output_seq_len(v.len)
    IN  IF IsOk(r.e)
        THEN [e |-> NoError, data |-> r.data \o v.body]
        ELSE [e |-> r.e, data |-> r.data]

serialize_bytes(v) ==
    /\ CanDispatch
    /\ LET r == serialize_bytes_result(v)
       IN  Finish(Call("serialize_bytes", <<v>>), r.e, r.data)

\* self.serialize_bytes(v.as_bytes())
serialize_str(v) ==
    /\ CanDispatch
    /\ LET r == serialize_bytes_result(v)
       IN  Finish(Call("serialize_str", <<v>>), r.e, r.data)

serialize_none ==
    /\ CanDispatch
    /\ Finish(Call("serialize_none", <<>>), NoError, <<0>>)

serialize_some ==
    /\ CanDispatch
    /\ Enter(Call("serialize_some", <<>>), NoError, <<1>>,
             <<Frame("some", "", Depth), Serializer_new(Depth)>>)

serialize_unit ==
    /\ CanDispatch
    /\ Finish(Call("serialize_unit", <<>>), NoError, <<>>)

----------------------------------------------------------------------------
(* impl ser::Serializer for Serializer: the named containers *)

serialize_unit_struct(name) ==
    /\ CanDispatch
    /\ LET r == enter_named_container(Depth, name)
       IN  Finish(Call("serialize_unit_struct", <<name>>), r.e, <<>>)

\* enter_named_container(name)?; then `rest`, a helper's [e, data]
NamedThen(depth, name, rest) ==
    LET r == enter_named_container(depth, name)
    IN  IF IsOk(r.e) THEN [e |-> rest.e, data |-> rest.data, depth |-> r.depth]
        ELSE [e |-> r.e, data |-> <<>>, depth |-> r.depth]

Nothing == [e |-> NoError, data |-> <<>>]

serialize_unit_variant(name, variant_index) ==
    /\ CanDispatch
    /\ LET r == NamedThen(Depth, name, output_variant_index(variant_index))
       IN  Finish(Call("serialize_unit_variant", <<name, variant_index>>), r.e, r.data)

serialize_newtype_struct(name) ==
    /\ CanDispatch
    /\ LET r == NamedThen(Depth, name, Nothing)
       IN  Enter(Call("serialize_newtype_struct", <<name>>), r.e, r.data,
                 <<Frame("newtype_struct", name, r.depth), Serializer_new(r.depth)>>)

serialize_newtype_variant(name, variant_index) ==
    /\ CanDispatch
    /\ LET r == NamedThen(Depth, name, output_variant_index(variant_index))
       IN  Enter(Call("serialize_newtype_variant", <<name, variant_index>>), r.e, r.data,
                 <<Frame("newtype_variant", name, r.depth), Serializer_new(r.depth)>>)

\* len is <<>> for None and <<n>> for Some(n)
serialize_seq(len) ==
    /\ CanDispatch
    /\ LET r == IF len = <<>> THEN [e |-> MissingLen, data |-> <<>>]
                ELSE output_seq_len(len[1])
       IN  Enter(Call("serialize_seq", <<len>>), r.e, r.data, <<Frame("seq", "", Depth)>>)

serialize_tuple ==
    /\ CanDispatch
    /\ Enter(Call("serialize_tuple", <<>>), NoError, <<>>, <<Frame("tuple", "", Depth)>>)

serialize_tuple_struct(name) ==
    /\ CanDispatch
    /\ LET r == NamedThen(Depth, name, Nothing)
       IN  Enter(Call("serialize_tuple_struct", <<name>>), r.e, r.data,
                 <<Frame("tuple_struct", name, r.depth)>>)

serialize_tuple_variant(name, variant_index) ==
    /\ CanDispatch
    /\ LET r == NamedThen(Depth, name, output_variant_index(variant_index))
       IN  Enter(Call("serialize_tuple_variant", <<name, variant_index>>), r.e, r.data,
                 <<Frame("tuple_variant", name, r.depth)>>)

\* MapSerializer::new(self) with feature alloc, self without
serialize_map ==
    /\ CanDispatch
    /\ Enter(Call("serialize_map", <<>>), NoError, <<>>, <<Frame("map", "", Depth)>>)

serialize_struct(name) ==
    /\ CanDispatch
    /\ LET r == NamedThen(Depth, name, Nothing)
       IN  Enter(Call("serialize_struct", <<name>>), r.e, r.data,
                 <<Frame("struct", name, r.depth)>>)

serialize_struct_variant(name, variant_index) ==
    /\ CanDispatch
    /\ LET r == NamedThen(Depth, name, output_variant_index(variant_index))
       IN  Enter(Call("serialize_struct_variant", <<name, variant_index>>), r.e, r.data,
                 <<Frame("struct_variant", name, r.depth)>>)

----------------------------------------------------------------------------
(* impl SerializeSeq .. SerializeStructVariant for Serializer *)

InCompound == pc = "running" /\ stack # <<>> /\ Top(stack).t \in Compound

\* value.serialize(Serializer::new(self.output, self.max_remaining_depth))
serialize_element ==
    /\ InCompound
    /\ Top(stack).t \in {"seq", "tuple"}
    /\ Apply(Call("serialize_element", <<>>), NoError, <<>>,
             Push(stack, Serializer_new(Depth)))

serialize_field ==
    /\ InCompound
    /\ Top(stack).t \notin {"seq", "tuple"}
    /\ Apply(Call("serialize_field", <<>>), NoError, <<>>,
             Push(stack, Serializer_new(Depth)))

end ==
    /\ InCompound
    /\ Apply(Call("end", <<Top(stack).t>>), NoError, <<>>, Unwind(Pop(stack)))

----------------------------------------------------------------------------
(* mod map_ser (feature alloc) *)

\* The bytes compared as i8.
AsI8(b) == IF b >= 128 THEN b - 256 ELSE b

RECURSIVE cmp_signed(_, _)
cmp_signed(a, b) ==
    IF a = <<>> THEN (IF b = <<>> THEN 0 ELSE -1)
    ELSE IF b = <<>> THEN 1
    ELSE IF AsI8(a[1]) < AsI8(b[1]) THEN -1
    ELSE IF AsI8(a[1]) > AsI8(b[1]) THEN 1
    ELSE cmp_signed(Tail(a), Tail(b))

\* Vec<u8>::cmp: lexicographic over unsigned bytes
RECURSIVE cmp(_, _)
cmp(a, b) ==
    IF a = <<>> THEN (IF b = <<>> THEN 0 ELSE -1)
    ELSE IF b = <<>> THEN 1
    ELSE IF a[1] < b[1] THEN -1
    ELSE IF a[1] > b[1] THEN 1
    ELSE cmp(Tail(a), Tail(b))

\* |e1, e2| e1.0.cmp(&e2.0)
compare_entries(e1, e2) == cmp(e1[1], e2[1])

\* |e1, e2| e1.0.eq(&e2.0)
same_bucket(e1, e2) == e1[1] = e2[1]

RECURSIVE Insert(_, _)
Insert(e, l) ==
    IF l = <<>> THEN <<e>>
    ELSE IF compare_entries(e, l[1]) < 0 THEN <<e>> \o l
    ELSE <<l[1]>> \o Insert(e, Tail(l))

\* The sort left out.
sort_by_skipped(v) == v

\* slice::sort_by: a stable sort
RECURSIVE sort_by(_)
sort_by(v) ==
    IF v = <<>> THEN <<>>
    ELSE Insert(v[Len(v)], sort_by(SubSeq(v, 1, Len(v) - 1)))

\* Of consecutive elements in the same bucket the last stays.
RECURSIVE dedup_by_last(_)
dedup_by_last(v) ==
    IF Len(v) <= 1 THEN v
    ELSE LET r == dedup_by_last(SubSeq(v, 1, Len(v) - 1))
         IN  IF same_bucket(v[Len(v)], r[Len(r)])
             THEN [r EXCEPT ![Len(r)] = v[Len(v)]]
             ELSE Append(r, v[Len(v)])

\* Vec::dedup_by: of consecutive elements in the same bucket the first stays
RECURSIVE dedup_by(_)
dedup_by(v) ==
    IF Len(v) <= 1 THEN v
    ELSE LET r == dedup_by(SubSeq(v, 1, Len(v) - 1))
         IN  IF same_bucket(v[Len(v)], r[Len(r)]) THEN r ELSE Append(r, v[Len(v)])

RECURSIVE ExtendEntries(_)
ExtendEntries(es) ==
    IF es = <<>> THEN <<>>
    ELSE es[1][1] \o es[1][2] \o ExtendEntries(Tail(es))

\* MapSerializer::end on a map frame: [e, data]
MapSerializer_end_result(self) ==
    IF self.next_key # <<>>
    THEN [e |-> ExpectedMapValue, data |-> <<>>]
    ELSE LET entries == dedup_by(sort_by(self.entries))
             r == output_seq_len(FromNat(Len(entries)))
         IN  IF IsOk(r.e)
             THEN [e |-> NoError, data |-> r.data \o ExtendEntries(entries)]
             ELSE [e |-> r.e, data |-> r.data]

InMap == pc = "running" /\ stack # <<>> /\ Top(stack).t = "map"

MapSerializer_serialize_key ==
    /\ InMap /\ alloc
    /\ IF Top(stack).next_key # <<>>
       THEN Apply(Call("MapSerializer::serialize_key", <<>>), ExpectedMapValue, <<>>, <<>>)
       ELSE Apply(Call("MapSerializer::serialize_key", <<>>), NoError, <<>>,
                  stack \o <<Frame("serialize_key", "", Depth), Serializer_new(Depth)>>)

\* next_key read without take(): the pending key stays.
MapSerializer_serialize_value_keep ==
    /\ InMap /\ alloc
    /\ IF Top(stack).next_key = <<>>
       THEN Apply(Call("MapSerializer::serialize_value", <<>>), ExpectedMapKey, <<>>, <<>>)
       ELSE Apply(Call("MapSerializer::serialize_value", <<>>), NoError, <<>>,
                  stack
                  \o <<[Frame("serialize_value", "", Depth)
                           EXCEPT !.key = Top(stack).next_key[1]],
                       Serializer_new(Depth)>>)

MapSerializer_serialize_value ==
    /\ InMap /\ alloc
    /\ IF Top(stack).next_key = <<>>
       THEN Apply(Call("MapSerializer::serialize_value", <<>>), ExpectedMapKey, <<>>, <<>>)
       ELSE Apply(Call("MapSerializer::serialize_value", <<>>), NoError, <<>>,
                  [stack EXCEPT ![Len(stack)].next_key = <<>>]
                  \o <<[Frame("serialize_value", "", Depth)
                           EXCEPT !.key = Top(stack).next_key[1]],
                       Serializer_new(Depth)>>)

MapSerializer_end ==
    /\ InMap /\ alloc
    /\ LET r == MapSerializer_end_result(Top(stack))
       IN  Apply(Call("MapSerializer::end", <<>>), r.e, r.data,
                 Unwind(Pop(StackExtend(stack, r.data))))

(* impl SerializeMap for Serializer (without feature alloc) *)

NoAllocMap == NotSupported("maps are not supported for non alloc environment")

Serializer_serialize_key ==
    /\ InMap /\ ~alloc
    /\ Apply(Call("Serializer::serialize_key", <<>>), NoAllocMap, <<>>, <<>>)

Serializer_serialize_value ==
    /\ InMap /\ ~alloc
    /\ Apply(Call("Serializer::serialize_value", <<>>), NoAllocMap, <<>>, <<>>)

Serializer_end ==
    /\ InMap /\ ~alloc
    /\ Apply(Call("Serializer::end", <<>>), NoError, <<>>, Unwind(Pop(stack)))

----------------------------------------------------------------------------
(* ser/mod.rs: the entry points *)

LimitError == NotSupported("limit exceeds the max allowed depth")

\* Serializer::new(&mut storage, depth); value.serialize(serializer)
Begin(name, depth) ==
    /\ pc = "idle"
    /\ pc' = "running"
    /\ limit' = depth
    /\ stack' = <<Serializer_new(depth)>>
    /\ op' = Call(name, <<depth>>)
    /\ UNCHANGED <<alloc, storage, counter, err>>

Reject(name, l, e) ==
    /\ pc = "idle"
    /\ pc' = "done"
    /\ limit' = l
    /\ err' = e
    /\ op' = Call(name, <<l>>)
    /\ UNCHANGED <<alloc, stack, storage, counter>>

serialize_with_flavor == Begin("serialize_with_flavor", MAX_CONTAINER_DEPTH)

\* The test written `limit >= MAX_CONTAINER_DEPTH`.
serialize_with_flavor_and_limit_ge(name, l) ==
    IF l >= MAX_CONTAINER_DEPTH THEN Reject(name, l, LimitError) ELSE Begin(name, l)

\* if limit > MAX_CONTAINER_DEPTH { return Err(..) }; Serializer::new(.., limit)
serialize_with_flavor_and_limit_as(name, l) ==
    IF l > MAX_CONTAINER_DEPTH THEN Reject(name, l, LimitError) ELSE Begin(name, l)

serialize_with_flavor_and_limit(l) ==
    serialize_with_flavor_and_limit_as("serialize_with_flavor_and_limit", l)

\* serialize_with_flavor(value, flavors::Size::default())
serialized_size == Begin("serialized_size", MAX_CONTAINER_DEPTH)

\* serialize_with_flavor(value, Vec::new())
to_bytes == alloc /\ Begin("to_bytes", MAX_CONTAINER_DEPTH)

to_bytes_with_limit(l) ==
    /\ alloc
    /\ IF l > MAX_CONTAINER_DEPTH THEN Reject("to_bytes_with_limit", l, LimitError)
       ELSE serialize_with_flavor_and_limit_as("to_bytes_with_limit", l)

Init ==
    /\ alloc \in BOOLEAN
    /\ pc = "idle"
    /\ limit = 0
    /\ stack = <<>>
    /\ storage = <<>>
    /\ counter = 0
    /\ err = NoError
    /\ op = Call("", <<>>)

----------------------------------------------------------------------------
(* The values the adapter delivers *)

MaxBytes == 2

MaxStack == 3

MaxEntries == 1

Names == {"A"}

U8s == {1}

Slices == {[len |-> FromNat(Len(b)), body |-> b] : b \in {<<>>, <<7>>}}
          \cup {[len |-> Wide(32768, 0), body |-> <<7>>]}

SeqLens == {<<>>, <<FromNat(1)>>, <<FromNat(128)>>, <<MAX_SEQUENCE_LENGTH>>,
            <<Wide(32768, 0)>>, <<Wide(65536, 1)>>}

VariantIndexes == {FromNat(1), Wide(32768, 0)}

Limits == {0, MAX_CONTAINER_DEPTH, MAX_CONTAINER_DEPTH + 1}

RECURSIVE EntryBytes(_)
EntryBytes(es) ==
    IF es = <<>> THEN 0 ELSE Len(es[1][1]) + Len(es[1][2]) + EntryBytes(Tail(es))

RECURSIVE StagedBytes(_)
StagedBytes(s) ==
    IF s = <<>> THEN 0
    ELSE LET f == s[1]
         IN  Len(f.output) + Len(f.key) + EntryBytes(f.entries)
             + (IF f.next_key = <<>> THEN 0 ELSE Len(f.next_key[1]))
             + StagedBytes(Tail(s))

Room == Len(storage) + StagedBytes(stack) < MaxBytes

Shallow == Len(stack) < MaxStack

Idle == pc = "idle"

\* The map on top of the stack has fewer than MaxEntries staged pairs.
FewEntries == InMap /\ Len(Top(stack).entries) < MaxEntries

Strs == {[len |-> FromNat(1), body |-> <<97>>], [len |-> Wide(32768, 0), body |-> <<97>>]}

Next ==
    \/ Idle /\ serialize_with_flavor
    \/ Idle /\ serialized_size
    \/ Idle /\ to_bytes
    \/ Idle /\ \E l \in Limits : to_bytes_with_limit(l)
    \/ Idle /\ \E l \in Limits : serialize_with_flavor_and_limit(l)
    \/ Room /\ \E v \in U8s : serialize_u8(v)
    \/ Room /\ serialize_bool(TRUE)
    \/ Room /\ serialize_i8(-1)
    \/ Room /\ serialize_u16(258)
    \/ Room /\ serialize_u32(16909060)
    \/ Room /\ serialize_u64(72623859)
    \/ Room /\ serialize_u128(1)
    \/ Room /\ serialize_f32
    \/ Room /\ serialize_f64
    \/ Room /\ serialize_char
    \/ Room /\ \E v \in Slices : serialize_bytes(v)
    \/ Room /\ \E v \in Strs : serialize_str(v)
    \/ Room /\ serialize_none
    \/ Room /\ serialize_unit
    \/ Room /\ \E name \in Names : serialize_unit_struct(name)
    \/ Room /\ \E name \in Names, i \in VariantIndexes : serialize_unit_variant(name, i)
    \/ Room /\ Shallow /\ serialize_some
    \/ Room /\ Shallow /\ \E name \in Names : serialize_newtype_struct(name)
    \/ Room /\ Shallow /\ \E name \in Names, i \in VariantIndexes :
                              serialize_newtype_variant(name, i)
    \/ Room /\ Shallow /\ \E len \in SeqLens : serialize_seq(len)
    \/ Room /\ Shallow /\ serialize_tuple
    \/ Room /\ Shallow /\ \E name \in Names : serialize_tuple_struct(name)
    \/ Room /\ Shallow /\ \E name \in Names, i \in VariantIndexes :
                              serialize_tuple_variant(name, i)
    \/ Room /\ Shallow /\ serialize_map
    \/ Room /\ Shallow /\ \E name \in Names : serialize_struct(name)
    \/ Room /\ Shallow /\ \E name \in Names, i \in VariantIndexes :
                              serialize_struct_variant(name, i)
    \/ Room /\ Shallow /\ serialize_element
    \/ Room /\ Shallow /\ serialize_field
    \/ Room /\ Shallow /\ FewEntries /\ MapSerializer_serialize_key
    \/ Room /\ Shallow /\ MapSerializer_serialize_value
    \/ Room /\ Shallow /\ Serializer_serialize_key
    \/ Room /\ Shallow /\ Serializer_serialize_value
    \/ InCompound /\ end
    \/ InMap /\ MapSerializer_end
    \/ InMap /\ Serializer_end

Spec == Init /\ [][Next]_vars

----------------------------------------------------------------------------
(* A top-level map of primitive keys and values, feature alloc *)

MaxMapEntries == 3

MapU8s == {1, 200}

MapSlices == {[len |-> FromNat(Len(b)), body |-> b] : b \in {<<>>, <<1>>}}

AtTop == pc = "running" /\ Len(stack) = 1

\* The Serializer on top belongs to serialize_key / to either staging handler.
InKey == pc = "running" /\ Len(stack) = 3 /\ stack[2].t = "serialize_key"

InEntry == pc = "running" /\ Len(stack) = 3 /\ stack[2].t \in Staging

FewMapEntries == InMap /\ Len(Top(stack).entries) < MaxMapEntries

InitMap == Init /\ alloc

NextMap ==
    \/ Idle /\ to_bytes
    \/ AtTop /\ serialize_map
    \/ FewMapEntries /\ MapSerializer_serialize_key
    \/ InMap /\ MapSerializer_serialize_value
    \/ InMap /\ MapSerializer_end
    \/ InEntry /\ \E v \in MapU8s : serialize_u8(v)
    \/ InKey /\ \E v \in MapSlices : serialize_bytes(v)
    \/ InEntry /\ serialize_unit

SpecMap == InitMap /\ [][NextMap]_vars

----------------------------------------------------------------------------
(* Nested containers under small limits, and a chain of newtype structs    *)
(* under the default limit                                                 *)

MaxLimit == 2

MaxNest == 4

DepthNames == {"A", "B"}

One == <<FromNat(1)>>

Small == limit <= MaxLimit /\ Len(stack) < MaxNest /\ Room

Deep == limit > MaxLimit

InitDepth == Init /\ alloc

NextDepth ==
    \/ Idle /\ to_bytes
    \/ Idle /\ \E l \in 0..MaxLimit : to_bytes_with_limit(l)
    \/ Deep /\ serialize_newtype_struct("A")
    \/ Deep /\ serialize_unit_struct("A")
    \/ Deep /\ serialize_unit
    \/ Small /\ serialize_unit
    \/ Small /\ \E name \in DepthNames : serialize_unit_struct(name)
    \/ Small /\ \E name \in DepthNames : serialize_unit_variant(name, FromNat(1))
    \/ Small /\ \E name \in DepthNames : serialize_newtype_struct(name)
    \/ Small /\ \E name \in DepthNames : serialize_newtype_variant(name, FromNat(1))
    \/ Small /\ \E name \in DepthNames : serialize_tuple_struct(name)
    \/ Small /\ \E name \in DepthNames : serialize_tuple_variant(name, FromNat(1))
    \/ Small /\ \E name \in DepthNames : serialize_struct(name)
    \/ Small /\ \E name \in DepthNames : serialize_struct_variant(name, FromNat(1))
    \/ Small /\ serialize_some
    \/ Small /\ serialize_seq(One)
    \/ Small /\ serialize_tuple
    \/ Small /\ serialize_map
    \/ Small /\ serialize_element
    \/ Small /\ serialize_field
    \/ Small /\ FewEntries /\ MapSerializer_serialize_key
    \/ Small /\ MapSerializer_serialize_value
    \/ InCompound /\ end
    \/ InMap /\ MapSerializer_end

SpecDepth == InitDepth /\ [][NextDepth]_vars

----------------------------------------------------------------------------
(* Variant indexes over the u32 range *)

MaxLow == 130

U32Hi == {0, 1, 31, 32, 4095, 4096, 32767, 32768, 65535}

U32Lo == (0..MaxLow) \cup {16383, 16384, 65535}

U32Samples == {Wide(h, l) : h \in U32Hi, l \in U32Lo}

InitUleb == Init /\ alloc

NextUleb ==
    \/ Idle /\ to_bytes
    \/ AtTop /\ \E v \in U32Samples : serialize_unit_variant("A", v)

SpecUleb == InitUleb /\ [][NextUleb]_vars

----------------------------------------------------------------------------
(* ULEB128, read back *)

Zero == Wide(0, 0)

\* a * 128 + d
Mul128Add(a, d) ==
    LET t == a.lo * 128 + d
    IN  Wide(a.hi * 128 + t \div W16, t % W16)

\* The sum of (b[i] & 0x7f) * 128^(i-1)
RECURSIVE UlebValue(_)
UlebValue(b) ==
    IF b = <<>> THEN Zero ELSE Mul128Add(UlebValue(Tail(b)), b[1] % 128)

\* Every byte but the last has its high bit set, the last has it clear.
UlebFramed(b) ==
    /\ Len(b) >= 1
    /\ \A i \in 1..Len(b) : b[i] \in 0..255
    /\ \A i \in 1..(Len(b) - 1) : b[i] >= 128
    /\ b[Len(b)] < 128

IsUleb128Of(b, v) ==
    /\ UlebFramed(b)
    /\ UlebValue(b) = v
    /\ b[Len(b)] = 0 => v = Zero

\* C4: for every u32 value v, the bytes output_u32_as_uleb128 appends carry v
\* in 7-bit groups, least significant first, with the high bit set on every
\* byte but the last, and the last byte is zero only for v = 0; the five
\* boundary values encode as 00, 7f, 80 01, ff 7f, 80 80 01.
C4_Uleb128 ==
    [][\A v \in U32Samples :
          AtTop /\ serialize_unit_variant("A", v) =>
              /\ IsOk(err')
              /\ IsUleb128Of(storage', v)
              /\ v = FromNat(0) => storage' = <<0>>
              /\ v = FromNat(127) => storage' = <<127>>
              /\ v = FromNat(128) => storage' = <<128, 1>>
              /\ v = FromNat(16383) => storage' = <<255, 127>>
              /\ v = FromNat(16384) => storage' = <<128, 128, 1>>]_vars

\* The largest u32 was written, in five bytes.
C4_Witness ==
    /\ pc = "done"
    /\ op = "serialize_unit_variant"
    /\ storage = <<255, 255, 255, 255, 15>>

----------------------------------------------------------------------------
(* Canonical maps *)

\* a sorts strictly before b: unsigned bytes, a proper prefix first
LexLess(a, b) ==
    \E i \in 1..Len(b) :
        /\ \A j \in 1..(i - 1) : j <= Len(a) /\ a[j] = b[j]
        /\ i > Len(a) \/ a[i] < b[i]

KeysOf(es) == {es[i][1] : i \in 1..Len(es)}

ValuesOf(es, k) == {es[i][2] : i \in {j \in 1..Len(es) : es[j][1] = k}}

RECURSIVE Ascending(_)
Ascending(K) ==
    IF K = {} THEN <<>>
    ELSE LET m == CHOOSE k \in K : \A j \in K : j = k \/ LexLess(k, j)
         IN  <<m>> \o Ascending(K \ {m})

\* Every key ++ value concatenation over the keys `ks`, in that order, each
\* value one that was staged with its key.
RECURSIVE Bodies(_, _)
Bodies(ks, es) ==
    IF ks = <<>> THEN {<<>>}
    ELSE {ks[1] \o v \o rest : v \in ValuesOf(es, ks[1]), rest \in Bodies(Tail(ks), es)}

DistinctKeys(es) == \A i, j \in 1..Len(es) : es[i][1] = es[j][1] => i = j

Orders(n) == {f \in [1..n -> 1..n] : \A i, j \in 1..n : f[i] = f[j] => i = j}

Permuted(es, f) == [i \in 1..Len(es) |-> es[f[i]]]

\* MapSerializer::end is called with no key pending
EndsMap == InMap /\ Top(stack).next_key = <<>> /\ MapSerializer_end

\* C1: when the staged pairs have pairwise distinct encoded keys,
\* MapSerializer::end writes the same bytes to the sink for every order in
\* which the pairs could have been delivered.
C1_OrderIndependent ==
    [][EndsMap /\ DistinctKeys(Top(stack).entries) =>
          \A f \in Orders(Len(Top(stack).entries)) :
              LET r == MapSerializer_end_result(
                           [Top(stack) EXCEPT !.entries = Permuted(@, f)])
              IN  IsOk(r.e) /\ IsOk(err') /\ storage' = storage \o r.data]_vars

\* A map of three distinct keys (empty, 01, c8) was written.
C1_Witness ==
    /\ pc = "done"
    /\ op = "MapSerializer::end"
    /\ storage = <<3, 1, 1, 200, 200, 1>>

\* C6: MapSerializer::end succeeds and writes ULEB128(n), n the number of
\* distinct staged keys, then one key ++ value per distinct key, the keys
\* strictly ascending in unsigned lexicographic order.
C6_CanonicalMap ==
    [][EndsMap =>
          LET es == Top(stack).entries
              ks == Ascending(KeysOf(es))
              n  == Cardinality(KeysOf(es))
          IN  /\ IsOk(err')
              /\ Len(ks) = n
              /\ \A i \in 1..(n - 1) : LexLess(ks[i], ks[i + 1])
              /\ \E body \in Bodies(ks, es) :
                    LET cut == Len(storage') - Len(body)
                    IN  /\ cut > Len(storage)
                        /\ SubSeq(storage', 1, Len(storage)) = storage
                        /\ IsUleb128Of(SubSeq(storage', Len(storage) + 1, cut), FromNat(n))
                        /\ SubSeq(storage', cut + 1, Len(storage')) = body]_vars

\* Three pairs with two distinct keys, 01 and its extension 01 01, were
\* collapsed to two entries.
C6_Witness ==
    /\ pc = "done"
    /\ op = "MapSerializer::end"
    /\ \E v \in {<<1>>, <<200>>, <<>>} : storage = <<2, 1>> \o v \o <<1, 1, 200>>

Untouched == storage' = storage /\ counter' = counter /\ stack' = stack

MapErrors == {"ExpectedMapKey", "ExpectedMapValue"}

\* C7: serialize_key with a key pending and end with a key pending fail
\* with ExpectedMapValue, serialize_value with no key pending fails with
\* ExpectedMapKey, each without writing anything; a completed key makes a
\* key pending, an accepted value clears it and stages the pair, so keys and
\* values that alternate raise neither error, and nothing else does.
C7_MapProtocol ==
    [][/\ InMap /\ MapSerializer_serialize_key =>
              IF Top(stack).next_key # <<>>
              THEN err' = ExpectedMapValue /\ pc' = "done" /\ Untouched
              ELSE IsOk(err')
       /\ InMap /\ MapSerializer_serialize_value =>
              IF Top(stack).next_key = <<>>
              THEN err' = ExpectedMapKey /\ pc' = "done" /\ Untouched
              ELSE IsOk(err') /\ stack'[Len(stack)].next_key = <<>>
       /\ InMap /\ MapSerializer_end =>
              IF Top(stack).next_key # <<>>
              THEN err' = ExpectedMapValue /\ pc' = "done" /\ Untouched
              ELSE err'.kind \notin MapErrors
       /\ InEntry /\ stack[2].t = "serialize_key" /\ pc' = "running" =>
              /\ stack'[1].next_key # <<>>
              /\ stack'[1].entries = stack[1].entries
       /\ InEntry /\ stack[2].t = "serialize_value" /\ pc' = "running" =>
              /\ stack'[1].next_key = <<>>
              /\ Len(stack'[1].entries) = Len(stack[1].entries) + 1
       /\ err'.kind \in MapErrors /\ IsOk(err) =>
              /\ InMap
              /\ op' = "MapSerializer::serialize_key" => Top(stack).next_key # <<>>
              /\ op' = "MapSerializer::serialize_value" => Top(stack).next_key = <<>>
              /\ op' = "MapSerializer::end" => Top(stack).next_key # <<>>]_vars

\* end was called after a pair and a further key.
C7_Witness ==
    /\ pc = "done"
    /\ op = "MapSerializer::end"
    /\ err = ExpectedMapValue
    /\ storage = <<>>
    /\ Len(stack) = 1
    /\ Len(stack[1].entries) = 1
    /\ stack[1].next_key # <<>>

----------------------------------------------------------------------------
(* The two flavors *)

\* C2: serialized_size and to_bytes agree: the Size flavor's count is the
\* length of the Vec<u8> flavor's bytes whenever the value has been
\* serialized (both runs return the same Result, as no handler reads the
\* flavor), maps with their staged keys and values included.
C2_SizeAgrees ==
    /\ counter = Len(storage)
    /\ pc = "done" /\ IsOk(err) => SizeFinalize(counter) = Len(VecFinalize(storage))

\* A map of one pair was serialized: count, key, value.
C2_Witness ==
    /\ pc = "done"
    /\ IsOk(err)
    /\ op = "MapSerializer::end"
    /\ storage = <<1, 1, 1>>
    /\ counter = 3

----------------------------------------------------------------------------
(* Lengths and variant indexes *)

\* The call appended to the top-level sink the ULEB128 of L, then `payload`.
WrotePrefixed(L, payload) ==
    \E k \in 1..5 :
        /\ Len(storage') = Len(storage) + k + Len(payload)
        /\ SubSeq(storage', 1, Len(storage)) = storage
        /\ IsUleb128Of(SubSeq(storage', Len(storage) + 1, Len(storage) + k), L)
        /\ SubSeq(storage', Len(storage) + k + 1, Len(storage')) = payload

LengthRule(L, payload) ==
    IF WideGt(L, MAX_SEQUENCE_LENGTH)
    THEN err' = ExceededMaxLen(L) /\ pc' = "done" /\ Untouched
    ELSE IsOk(err') /\ (SinkIdx(stack) = 0 => WrotePrefixed(L, payload))

\* C5: a byte string, text, sequence or map of length L > MAX_SEQUENCE_LENGTH
\* fails with ExceededMaxLen(L) and nothing is written; for L up to
\* MAX_SEQUENCE_LENGTH the prefix written is the ULEB128 of L (a map's L is
\* the number of entries it writes).
C5_MaxLen ==
    [][/\ \A v \in Slices \cup Strs :
              CanDispatch /\ (serialize_bytes(v) \/ serialize_str(v)) =>
                  LengthRule(v.len, v.body)
       /\ \A len \in SeqLens :
              CanDispatch /\ len # <<>> /\ serialize_seq(len) => LengthRule(len[1], <<>>)
       /\ EndsMap =>
              LET es == Top(stack).entries
              IN  \E body \in Bodies(Ascending(KeysOf(es)), es) :
                      LengthRule(FromNat(Cardinality(KeysOf(es))), body)]_vars

\* A sequence of 2^32 + 1 elements was refused inside Some.
C5_Witness ==
    /\ pc = "done"
    /\ op = "serialize_seq"
    /\ err.kind = "ExceededMaxLen"
    /\ err.arg = <<Wide(65536, 1)>>
    /\ storage = <<1>>

VariantCall(name, i) ==
    \/ serialize_unit_variant(name, i)
    \/ serialize_newtype_variant(name, i)
    \/ serialize_tuple_variant(name, i)
    \/ serialize_struct_variant(name, i)

\* C8 as claimed: a variant whose index exceeds MAX_SEQUENCE_LENGTH fails
\* with ExceededMaxLen.
C8_IndexCeiling ==
    [][\A name \in Names, i \in VariantIndexes :
          CanDispatch /\ Depth > 0 /\ WideGt(i, MAX_SEQUENCE_LENGTH) /\ VariantCall(name, i)
              => err'.kind = "ExceededMaxLen"]_vars

\* C8: MAX_SEQUENCE_LENGTH is a ceiling on lengths only: a variant index is
\* written as its ULEB128 whatever its value, and no variant call fails with
\* ExceededMaxLen.
C8_IndexUnchecked ==
    [][\A name \in Names, i \in VariantIndexes :
          CanDispatch /\ VariantCall(name, i) =>
              /\ err'.kind # "ExceededMaxLen"
              /\ Depth > 0 => IsOk(err') /\ (SinkIdx(stack) = 0 => WrotePrefixed(i, <<>>))]_vars

\* The index 2^31 was written.
C8_Witness ==
    /\ pc = "done"
    /\ op = "serialize_unit_variant"
    /\ IsOk(err)
    /\ storage = <<128, 128, 128, 128, 8>>

----------------------------------------------------------------------------
(* The depth limit *)

WithLimit == {"to_bytes_with_limit", "serialize_with_flavor_and_limit"}

C10_NoAllocMaps ==
    ~alloc /\ pc = "done" /\ op = "Serializer::end" => err.kind = "NotSupported"

NamedCount(s, i) == Cardinality({j \in 1..i : s[j].t \in Named})

NamedCall(name) ==
    \/ serialize_unit_struct(name)
    \/ serialize_newtype_struct(name)
    \/ serialize_tuple_struct(name)
    \/ serialize_struct(name)
    \/ VariantCall(name, FromNat(1))

NamedOps == {"serialize_unit_struct", "serialize_newtype_struct", "serialize_tuple_struct",
             "serialize_struct", "serialize_unit_variant", "serialize_newtype_variant",
             "serialize_tuple_variant", "serialize_struct_variant"}

\* C3: every serializer's remaining depth is the limit less the named
\* containers open on its own path (siblings and sequences, tuples, maps,
\* options do not count); entering a named container succeeds while fewer
\* than `limit` are open on the path and fails with
\* ExceededContainerDepthLimit(its name) when `limit` are, and nothing else
\* raises that error.  Under the default limit 500 the 501st nested struct
\* is the one that fails.
C3_DepthPerPath ==
    /\ [](\A i \in 1..Len(stack) : stack[i].depth = limit - NamedCount(stack, i))
    /\ [][/\ \A name \in DepthNames :
                 CanDispatch /\ NamedCall(name) =>
                     IF NamedCount(stack, Len(stack)) >= limit
                     THEN err' = ExceededContainerDepthLimit(name) /\ pc' = "done"
                     ELSE IsOk(err')
          /\ err'.kind = "ExceededContainerDepthLimit" /\ IsOk(err) =>
                 /\ CanDispatch
                 /\ op' \in NamedOps
                 /\ NamedCount(stack, Len(stack)) = limit]_vars

\* Under the default limit, 500 newtype structs were entered and the 501st
\* was refused.
C3_Witness ==
    /\ pc = "done"
    /\ limit = MAX_CONTAINER_DEPTH
    /\ err.kind = "ExceededContainerDepthLimit"
    /\ NamedCount(stack, Len(stack)) = MAX_CONTAINER_DEPTH

\* The value staged with the earliest pair whose encoded key is k.
FirstValue(es, k) ==
    LET I == {i \in 1..Len(es) : es[i][1] = k}
    IN  es[CHOOSE i \in I : \A j \in I : i <= j][2]

\* key ++ first value, over the keys `ks` in that order
RECURSIVE FirstBodies(_, _)
FirstBodies(ks, es) ==
    IF ks = <<>> THEN <<>>
    ELSE ks[1] \o FirstValue(es, ks[1]) \o FirstBodies(Tail(ks), es)

\* Two staged pairs share an encoded key and differ in their encoded value.
Duplicates(es) ==
    \E i, j \in 1..Len(es) : i < j /\ es[i][1] = es[j][1] /\ es[i][2] # es[j][2]

\* C11: MapSerializer::end emits, for every distinct encoded key, the
\* encoded value of the pair that was delivered first with that key, and
\* every other delivery order with the same first value per key makes end
\* write the same bytes.
C11_FirstDuplicateWins ==
    [][EndsMap =>
          LET es == Top(stack).entries
              ks == Ascending(KeysOf(es))
              body == FirstBodies(ks, es)
              cut == Len(storage') - Len(body)
          IN  /\ IsOk(err')
              /\ cut > Len(storage)
              /\ SubSeq(storage', 1, Len(storage)) = storage
              /\ IsUleb128Of(SubSeq(storage', Len(storage) + 1, cut),
                             FromNat(Cardinality(KeysOf(es))))
              /\ SubSeq(storage', cut + 1, Len(storage')) = body
              /\ \A f \in Orders(Len(es)) :
                    (\A k \in KeysOf(es) :
                        FirstValue(Permuted(es, f), k) = FirstValue(es, k))
                    => storage' = storage \o MapSerializer_end_result(
                           [Top(stack) EXCEPT !.entries = Permuted(@, f)]).data]_vars

\* Key 01 was delivered three times, with the values c8, 01 and the empty
\* encoding in that order, and end writes the one entry 01 -> c8.
C11_Witness ==
    /\ InMap
    /\ Top(stack).next_key = <<>>
    /\ Top(stack).entries = <<<<<<1>>, <<200>>>>, <<<<1>>, <<1>>>>, <<<<1>>, <<>>>>>>
    /\ Duplicates(Top(stack).entries)
    /\ ENABLED (MapSerializer_end /\ storage' = <<1, 1, 200>>)

====
